---------------------------- MODULE Spec2Model ----------------------------
(***************************************************************************)
(* Jira Transition Times Extractor.                                        *)
(*                                                                         *)
(* The script pages through a JQL search, fetches every issue's changelog, *)
(* finds the first entry into two statuses, derives the day and minute     *)
(* metrics and writes one CSV.  The module models the enhanced-search      *)
(* version of the script (withRetry, fetchIssues, fetchIssueChangelog,     *)
(* getAllIssues, calculateAverageTimeSpentDays, saveResultsToCsv, main)    *)
(* and, of the older index.js, the average it computes.                    *)
(*                                                                         *)
(* JavaScript values:                                                      *)
(*   - a timestamp string is the tuple of the numbers it spells:           *)
(*     <<Y, M, D, h, m>> for 'YYYY-MM-DDThh:mm...', <<Y, M, D>> for a      *)
(*     date-only 'YYYY-MM-DD', <<0>> for text that spells no date;         *)
(*     null, undefined and '' (the falsy values) are <<>>;                 *)
(*   - a number slot is a record: Null, NaN or Num(n);                     *)
(*   - a Date is its time value in minutes: Num(n), or NaN (Invalid Date). *)
(* Local time is taken to be UTC.                                          *)
(*                                                                         *)
(* AFFECTED_CUSTOMERS_FIELD_ID is read in the issue loop but declared      *)
(* nowhere in the script, so what it resolves to is a fact of the global   *)
(* object the script runs under: nothing, and reading it throws a          *)
(* ReferenceError (the script run on its own), or a field id.  Both are    *)
(* initial states.                                                         *)
(*                                                                         *)
(* The server is any Jira that holds a fixed list of issues and changelogs *)
(* and serves them in pages of a fixed size; the page sizes it serves are  *)
(* those of the model, not the 50 and 100 the script asks for.             *)
(***************************************************************************)
EXTENDS Integers, Sequences, FiniteSets, TLC

VARIABLES
    \* configuration and environment
    useCreatedDate,     \* the configuration flag
    fieldIdBinding,     \* what the free identifier AFFECTED_CUSTOMERS_FIELD_ID resolves to
    server,             \* what Jira holds and how it pages its answers
    clock,              \* the instants new Date() may read during the run
    \* withRetry: the current call, [attempt, state, tries, waits]
    \*   state: "idle", "calling", "returned" or "thrown"
    \*   tries: what fn() produced at each attempt, waits: the waitMs slept before each retry
    call,
    \* getAllIssues and fetchIssueChangelog
    pc,
    nextPageToken,
    data,               \* the current search page
    issueIdx,           \* number of issues of the page already processed
    startAt,
    histories,
    scanIdx,            \* number of history entries the scan has consumed
    status1Time,
    status2Time,
    now,
    results,
    requests,           \* every page asked of the server, in order
    \* main
    mainResults,        \* main's results, once getAllIssues has returned
    avgDays,
    avgDaysIndexJs,     \* the average as index.js computes it
    csvFile             \* the lines of issue_transition_times.csv, <<>> while not written

cfgVars == <<useCreatedDate, fieldIdBinding, server, clock>>

scanVars == <<scanIdx, status1Time, status2Time>>

loopVars == <<nextPageToken, data, issueIdx, startAt, histories, now, results, requests>>

mainVars == <<mainResults, avgDays, avgDaysIndexJs, csvFile>>

vars == <<cfgVars, call, pc, scanVars, loopVars, mainVars>>

-----------------------------------------------------------------------------
(* JavaScript values *)

Absent == <<>>

Null == [k |-> "null", v |-> 0]

NaN == [k |-> "nan", v |-> 0]

Num(n) == [k |-> "num", v |-> n]

Truthy(s) == s /= Absent

isNaN(x) == x.k = "nan"

IsNumber(x) == x.k = "num"

-----------------------------------------------------------------------------
(* Configuration *)

status1 == "01 To Write"

status2 == "08 Blocked"

\* '2025-30-09'
endDate == <<2025, 30, 9>>

Unbound == "ReferenceError"

-----------------------------------------------------------------------------
(* date-fns *)

MinutesPerDay == 24 * 60

IsLeapYear(y) == (y % 4 = 0 /\ y % 100 /= 0) \/ y % 400 = 0

DaysInMonth(y, m) ==
    IF m = 2 THEN (IF IsLeapYear(y) THEN 29 ELSE 28)
    ELSE IF m \in {4, 6, 9, 11} THEN 30 ELSE 31

RECURSIVE DaysBeforeMonth(_, _)
DaysBeforeMonth(y, m) ==
    IF m <= 1 THEN 0 ELSE DaysBeforeMonth(y, m - 1) + DaysInMonth(y, m - 1)

\* days from 1970-01-01 to the first of January of year y
DaysBeforeYear(y) ==
    365 * (y - 1970) + ((y - 1969) \div 4) - ((y - 1901) \div 100) + ((y - 1601) \div 400)

ValidDate(s) ==
    /\ s[2] \in 1..12
    /\ s[3] \in 1..DaysInMonth(s[1], s[2])

ValidTime(s) ==
    /\ s[4] \in 0..23
    /\ s[5] \in 0..59

EpochDay(s) == DaysBeforeYear(s[1]) + DaysBeforeMonth(s[1], s[2]) + (s[3] - 1)

\* parseISO: the Date a string spells, Invalid Date when it spells none.
parseISO(s) ==
    IF Len(s) = 3 /\ ValidDate(s) THEN Num(EpochDay(s) * MinutesPerDay)
    ELSE IF Len(s) = 5 /\ ValidDate(s) /\ ValidTime(s)
         THEN Num(EpochDay(s) * MinutesPerDay + s[4] * 60 + s[5])
    ELSE NaN

\* Math.trunc(a / b), b > 0
TruncDiv(a, b) == IF a >= 0 THEN a \div b ELSE -((-a) \div b)

differenceInMinutes(left, right) ==
    IF isNaN(left) \/ isNaN(right) THEN NaN ELSE Num(left.v - right.v)

\* A day difference rounded down instead of towards zero.
differenceInDaysFloor(left, right) ==
    IF isNaN(left) \/ isNaN(right) THEN NaN
    ELSE Num((left.v - right.v) \div MinutesPerDay)

\* the number of full days between the two dates
differenceInDays(left, right) ==
    IF isNaN(left) \/ isNaN(right) THEN NaN
    ELSE Num(TruncDiv(left.v - right.v, MinutesPerDay))

\* a <= b on Dates: false when either is Invalid Date
DateLeq(a, b) == ~isNaN(a) /\ ~isNaN(b) /\ a.v <= b.v

-----------------------------------------------------------------------------
(* The body of the issue loop of getAllIssues *)

StatusChange(to) == [field |-> "status", toString |-> to]

NoTimes == [status1Time |-> Absent, status2Time |-> Absent]

\* A scan in which the last matching entry wins (the !status1Time and
\* !status2Time guards dropped).
ScanItemLastWins(acc, created, item) ==
    IF item.field = "status"
    THEN LET a1 == IF item.toString = status1
                   THEN [acc EXCEPT !.status1Time = created]
                   ELSE acc
         IN  IF item.toString = status2
             THEN [a1 EXCEPT !.status2Time = created]
             ELSE a1
    ELSE acc

\* if (item.field === 'status') { ... }: one item of one history entry
ScanItem(acc, created, item) ==
    IF item.field = "status"
    THEN LET a1 == IF item.toString = status1 /\ ~Truthy(acc.status1Time)
                   THEN [acc EXCEPT !.status1Time = created]
                   ELSE acc
         IN  IF item.toString = status2 /\ ~Truthy(a1.status2Time)
             THEN [a1 EXCEPT !.status2Time = created]
             ELSE a1
    ELSE acc

\* for (const item of history.items || [])
RECURSIVE ScanItems(_, _, _)
ScanItems(acc, created, items) ==
    IF items = <<>> THEN acc
    ELSE ScanItems(ScanItem(acc, created, Head(items)), created, Tail(items))

ScanHistory(acc, history) == ScanItems(acc, history.created, history.items)

\* for (const history of histories)
RECURSIVE ScanAll(_, _)
ScanAll(acc, hs) ==
    IF hs = <<>> THEN acc ELSE ScanAll(ScanHistory(acc, Head(hs)), Tail(hs))

\* A start time that a status1 entry replaces whatever the flag says.
StartTimeIgnoringFlag(createdDate, s1Time) ==
    LET initial == IF useCreatedDate THEN createdDate ELSE Absent
    IN  IF Truthy(s1Time) THEN s1Time ELSE initial

\* let startTime = useCreatedDate ? createdDate : null; ...
\* if (!useCreatedDate && status1Time) startTime = status1Time;
StartTime(createdDate, s1Time) ==
    LET initial == IF useCreatedDate THEN createdDate ELSE Absent
    IN  IF ~useCreatedDate /\ Truthy(s1Time) THEN s1Time ELSE initial

BacklogDays(startTime, nowDate) ==
    IF Truthy(startTime) THEN differenceInDays(nowDate, parseISO(startTime)) ELSE Null

TimeSpent(startTime, s2Time) ==
    LET startDt   == parseISO(startTime)
        status2Dt == parseISO(s2Time)
        endDt     == parseISO(endDate)
    IN  IF /\ Truthy(startTime) /\ Truthy(s2Time)
           /\ ~isNaN(startDt) /\ ~isNaN(status2Dt) /\ ~isNaN(endDt)
           /\ DateLeq(status2Dt, endDt)
        THEN [minutes |-> differenceInMinutes(status2Dt, startDt),
              days    |-> differenceInDays(status2Dt, startDt)]
        ELSE [minutes |-> Null, days |-> Null]

Or(s, default) == IF s = "" THEN default ELSE s

\* the object pushed to results (the model's summaries hold no double quote)
ReportRow(iss, times, nowDate) ==
    LET startTime == StartTime(iss.created, times.status1Time)
        spent     == TimeSpent(startTime, times.status2Time)
    IN  [key              |-> iss.key,
         summary          |-> iss.summary,
         status           |-> Or(iss.status, "Unknown"),
         priority         |-> Or(iss.priority, "Unknown"),
         assignee         |-> Or(iss.assignee, "Unassigned"),
         startTime        |-> startTime,
         backlogDays      |-> BacklogDays(startTime, nowDate),
         status2Time      |-> times.status2Time,
         timeSpentMinutes |-> spent.minutes,
         timeSpentDays    |-> spent.days]

-----------------------------------------------------------------------------
(* withRetry *)

retries == 3

baseDelayMs == 500

\* err.response?.status of an error that carries no response
NoResponse == 0

RECURSIVE Pow2(_)
Pow2(n) == IF n = 0 THEN 1 ELSE 2 * Pow2(n - 1)

\* What fn() produces: a response, or an error with its HTTP status and the
\* number its Retry-After header spells (Null: no header, NaN: not a number).
Ok == [ok |-> TRUE, status |-> 200, retryAfter |-> Null]

Failure(st, hdr) == [ok |-> FALSE, status |-> st, retryAfter |-> hdr]

\* A test that forgets the upper end of the 5xx range.
RetryableNoUpperBound(status) == status = 429 \/ status >= 500

\* status === 429 || (status >= 500 && status <= 599)
Retryable(status) == status = 429 \/ (status >= 500 /\ status <= 599)

WaitMs(att, retryAfterHeader) ==
    LET delay == baseDelayMs * Pow2(att)
        retryAfterMs == IF retryAfterHeader = Null THEN Null
                        ELSE IF isNaN(retryAfterHeader) THEN NaN
                        ELSE Num(retryAfterHeader.v * 1000)
    IN  IF IsNumber(retryAfterMs) /\ retryAfterMs.v /= 0 THEN retryAfterMs.v ELSE delay

NoCall == [attempt |-> 0, state |-> "idle", tries |-> <<>>, waits |-> <<>>]

\* let attempt = 0; while (true) { try { return await fn(); ...
NewCall == [attempt |-> 0, state |-> "calling", tries |-> <<>>, waits |-> <<>>]

\* if (attempt < retries && (status === 429 || ...))
Retries(c, o) == ~o.ok /\ c.attempt < retries /\ Retryable(o.status)

\* return await fn();
Returned(c, o) == [c EXCEPT !.state = "returned", !.tries = Append(@, o)]

\* await new Promise((r) => setTimeout(r, waitMs)); attempt++; continue;
Waited(c, o) ==
    [c EXCEPT !.attempt = @ + 1,
              !.tries = Append(@, o),
              !.waits = Append(@, WaitMs(c.attempt, o.retryAfter))]

\* printAxiosError(err); throw err;
Thrown(c, o) == [c EXCEPT !.state = "thrown", !.tries = Append(@, o)]

-----------------------------------------------------------------------------
(* The Jira server: a fixed set of issues and changelogs, served in pages *)

PageSize == 2

ChangelogPageSize == 2

\* nextPageToken = null; a token is the offset of the page it stands for
NoToken == 0

\* startAt += pageSize || 100
DefaultPageStep == 100

Min(a, b) == IF a <= b THEN a ELSE b

\* POST /rest/api/3/search/jql: { issues, isLast, nextPageToken }
SearchResponse(token) ==
    LET total == Len(server.issues)
        last  == token + PageSize >= total
    IN  [issues        |-> SubSeq(server.issues, token + 1, Min(token + PageSize, total)),
         isLast        |-> server.searchSendsIsLast /\ last,
         nextPageToken |-> IF last THEN NoToken ELSE token + PageSize]

\* GET /rest/api/3/issue/{key}/changelog?startAt=..: { values, maxResults, total, isLast },
\* of which the server may leave out isLast ("offsets") or maxResults and total ("flag")
ChangelogResponse(key, from) ==
    LET log   == server.changelog[key]
        total == Len(log)
        last  == from + ChangelogPageSize >= total
    IN  [values     |-> SubSeq(log, from + 1, Min(from + ChangelogPageSize, total)),
         maxResults |-> IF server.changelogShape = "flag" THEN Null ELSE Num(ChangelogPageSize),
         total      |-> IF server.changelogShape = "flag" THEN Null ELSE Num(total),
         isLast     |-> IF server.changelogShape = "offsets" THEN "undefined"
                        ELSE IF last THEN "true" ELSE "false"]

SearchRequest(token) == [kind |-> "search", token |-> token, key |-> 0, startAt |-> 0]

ChangelogRequest(key, from) == [kind |-> "changelog", token |-> NoToken, key |-> key, startAt |-> from]

-----------------------------------------------------------------------------
(* fetchIssueChangelog: what it derives from one page *)

\* const pageSize = data.maxResults ?? values.length ?? 0;
PageSizeOf(resp) == IF resp.maxResults /= Null THEN resp.maxResults.v ELSE Len(resp.values)

\* const total = data.total ?? startAt + pageSize;
TotalOf(resp, from) == IF resp.total /= Null THEN resp.total.v ELSE from + PageSizeOf(resp)

\* const isLast = data.isLast ?? (startAt + pageSize >= total);
IsLastOf(resp, from) ==
    IF resp.isLast /= "undefined" THEN resp.isLast = "true"
    ELSE from + PageSizeOf(resp) >= TotalOf(resp, from)

\* startAt += pageSize || 100;
NextStartAt(resp, from) ==
    from + (IF PageSizeOf(resp) = 0 THEN DefaultPageStep ELSE PageSizeOf(resp))

-----------------------------------------------------------------------------
(* calculateAverageTimeSpentDays and saveResultsToCsv *)

RECURSIVE Sum(_)
Sum(xs) == IF xs = <<>> THEN 0 ELSE Head(xs) + Sum(Tail(xs))

\* typeof v === 'number'
TypeofNumber(v) == v.k \in {"num", "nan"}

Days(rows) == [i \in 1..Len(rows) |-> rows[i].timeSpentDays]

\* A quotient is kept as numerator and denominator; NaN when a NaN was summed.
Quotient(n, d) == [k |-> "num", num |-> n, den |-> d]

NotComputed == [k |-> "none", num |-> 0, den |-> 1]

calculateAverageTimeSpentDays(rows) ==
    LET valid == SelectSeq(Days(rows), TypeofNumber)
    IN  IF Len(valid) = 0 THEN Quotient(0, 1)
        ELSE IF \E i \in 1..Len(valid) : isNaN(valid[i])
             THEN [k |-> "nan", num |-> 0, den |-> 1]
        ELSE Quotient(Sum([i \in 1..Len(valid) |-> valid[i].v]), Len(valid))

\* index.js: reduce((sum, result) => sum + (result['Time Spent (Days)'] || 0), 0) / results.length
calculateAverageTimeSpentDaysIndexJs(rows) ==
    IF Len(rows) = 0 THEN Quotient(0, 1)
    ELSE Quotient(Sum([i \in 1..Len(rows) |->
                          IF IsNumber(rows[i].timeSpentDays) THEN rows[i].timeSpentDays.v ELSE 0]),
                  Len(rows))

\* r[...] ?? '' on a number slot, as row.join(',') spells it
CsvNumber(v) == IF v = Null THEN "" ELSE IF isNaN(v) THEN "NaN" ELSE ToString(v.v)

\* r[...] ?? '' on a string slot
CsvText(t) == IF t = Absent THEN "" ELSE ToString(t)

CsvHeader ==
    "Issue Key,Summary,Status,Priority,Start Time,Currently in Backlog for,"
        \o status2 \o " Time,Time Spent (Minutes),Time Spent (Days),Assignee"

CsvCells(r) ==
    << ToString(r.key), "\"" \o r.summary \o "\"", r.status, r.priority,
       CsvText(r.startTime), CsvNumber(r.backlogDays), CsvText(r.status2Time),
       CsvNumber(r.timeSpentMinutes), CsvNumber(r.timeSpentDays), r.assignee >>

RECURSIVE Join(_)
Join(cells) ==
    IF Len(cells) = 1 THEN cells[1] ELSE cells[1] \o "," \o Join(Tail(cells))

\* the lines of the file fs.writeFileSync writes
Csv(rows) == <<CsvHeader>> \o [i \in 1..Len(rows) |-> Join(CsvCells(rows[i]))]

-----------------------------------------------------------------------------
(* main, getAllIssues, fetchIssues, fetchIssueChangelog *)

CurrentIssue == data.issues[issueIdx + 1]

NoData == [issues |-> <<>>, isLast |-> FALSE, nextPageToken |-> NoToken]

\* main() -> getAllIssues() -> fetchIssues(null): the first page is asked for
Main ==
    /\ pc = "main"
    /\ pc' = "fetchIssues"
    /\ call' = NewCall
    /\ requests' = Append(requests, SearchRequest(NoToken))
    /\ UNCHANGED <<cfgVars, scanVars, nextPageToken, data, issueIdx, startAt, histories,
                   now, results, mainVars>>

\* withRetry: fn() failed with a 429 or 5xx and retries are left: wait, go again
FetchRetry(faults) ==
    /\ pc \in {"fetchIssues", "fetchChangelog"}
    /\ call.state = "calling"
    /\ \E o \in faults :
         /\ Retries(call, o)
         /\ call' = Waited(call, o)
    /\ UNCHANGED <<cfgVars, pc, scanVars, loopVars, mainVars>>

\* A run that goes on to the average and the CSV after an error.
MainCatchSalvaging == "average"

\* } catch (error) { console.error('Fatal error:', ...); }: main returns
MainCatch == "failed"

\* withRetry rethrows; nothing catches before main's catch, which logs
FetchThrows(faults) ==
    /\ pc \in {"fetchIssues", "fetchChangelog"}
    /\ call.state = "calling"
    /\ \E o \in faults :
         /\ ~o.ok
         /\ ~Retries(call, o)
         /\ call' = Thrown(call, o)
    /\ pc' = MainCatch
    /\ UNCHANGED <<cfgVars, scanVars, loopVars, mainVars>>

\* the search page arrives: const data = await fetchIssues(nextPageToken)
IssuesPage ==
    /\ pc = "fetchIssues"
    /\ call.state = "calling"
    /\ call' = Returned(call, Ok)
    /\ data' = SearchResponse(nextPageToken)
    /\ issueIdx' = 0
    /\ pc' = "issue"
    /\ UNCHANGED <<cfgVars, scanVars, nextPageToken, startAt, histories, now, results,
                   requests, mainVars>>

\* the head of the loop body, up to the first changelog request; evaluating the
\* undeclared AFFECTED_CUSTOMERS_FIELD_ID throws, and main's catch logs
BeginIssue ==
    /\ pc = "issue"
    /\ issueIdx < Len(data.issues)
    /\ IF fieldIdBinding = Unbound
       THEN /\ pc' = MainCatch
            /\ UNCHANGED <<call, startAt, histories, requests>>
       ELSE /\ pc' = "fetchChangelog"
            /\ startAt' = 0
            /\ histories' = <<>>
            /\ call' = NewCall
            /\ requests' = Append(requests, ChangelogRequest(CurrentIssue.key, 0))
    /\ UNCHANGED <<cfgVars, scanVars, nextPageToken, data, issueIdx, now, results, mainVars>>

\* a changelog page arrives: push its values, stop on the last page, else ask
\* for the next one
ChangelogPage ==
    /\ pc = "fetchChangelog"
    /\ call.state = "calling"
    /\ LET resp == ChangelogResponse(CurrentIssue.key, startAt)
       IN  /\ histories' = histories \o resp.values
           /\ IF IsLastOf(resp, startAt)
              THEN /\ call' = Returned(call, Ok)
                   /\ pc' = "scan"
                   /\ scanIdx' = 0
                   /\ status1Time' = Absent
                   /\ status2Time' = Absent
                   /\ UNCHANGED <<startAt, requests>>
              ELSE /\ startAt' = NextStartAt(resp, startAt)
                   /\ call' = NewCall
                   /\ requests' = Append(requests,
                                         ChangelogRequest(CurrentIssue.key,
                                                          NextStartAt(resp, startAt)))
                   /\ UNCHANGED <<pc, scanVars>>
    /\ UNCHANGED <<cfgVars, nextPageToken, data, issueIdx, now, results, mainVars>>

\* one iteration of for (const history of histories)
ScanNext ==
    /\ pc = "scan"
    /\ scanIdx < Len(histories)
    /\ LET acc == ScanHistory([status1Time |-> status1Time, status2Time |-> status2Time],
                              histories[scanIdx + 1])
       IN  /\ status1Time' = acc.status1Time
           /\ status2Time' = acc.status2Time
    /\ scanIdx' = scanIdx + 1
    /\ UNCHANGED <<cfgVars, call, pc, loopVars, mainVars>>

\* the scan is over: start time, backlog, time spent, results.push
PushRow ==
    /\ pc = "scan"
    /\ scanIdx = Len(histories)
    /\ \E n \in clock :
         /\ now' = n
         /\ results' = Append(results,
                              ReportRow(CurrentIssue,
                                        [status1Time |-> status1Time,
                                         status2Time |-> status2Time], n))
    /\ issueIdx' = issueIdx + 1
    /\ pc' = "issue"
    /\ UNCHANGED <<cfgVars, call, scanVars, nextPageToken, data, startAt, histories,
                   requests, mainVars>>

\* nextPageToken = data.isLast ? null : (data.nextPageToken || null); while (nextPageToken)
EndOfPage ==
    /\ pc = "issue"
    /\ issueIdx = Len(data.issues)
    /\ LET token == IF data.isLast THEN NoToken ELSE data.nextPageToken
       IN  /\ nextPageToken' = token
           /\ IF token /= NoToken
              THEN /\ pc' = "fetchIssues"
                   /\ call' = NewCall
                   /\ requests' = Append(requests, SearchRequest(token))
                   /\ UNCHANGED mainResults
              ELSE /\ pc' = "average"
                   /\ mainResults' = results
                   /\ UNCHANGED <<call, requests>>
    /\ UNCHANGED <<cfgVars, scanVars, data, issueIdx, startAt, histories, now, results,
                   avgDays, avgDaysIndexJs, csvFile>>

\* const avgDays = calculateAverageTimeSpentDays(results);
Average ==
    /\ pc = "average"
    /\ avgDays' = calculateAverageTimeSpentDays(mainResults)
    /\ pc' = "save"
    /\ UNCHANGED <<cfgVars, call, scanVars, loopVars, mainResults, avgDaysIndexJs, csvFile>>

\* index.js: const averageTimeSpentDays = calculateAverageTimeSpentDays(results);
AverageIndexJs ==
    /\ pc \in {"average", "save"}
    /\ avgDaysIndexJs = NotComputed
    /\ avgDaysIndexJs' = calculateAverageTimeSpentDaysIndexJs(mainResults)
    /\ UNCHANGED <<cfgVars, call, pc, scanVars, loopVars, mainResults, avgDays, csvFile>>

\* await saveResultsToCsv(results);
SaveCsv ==
    /\ pc = "save"
    /\ csvFile' = Csv(mainResults)
    /\ pc' = "done"
    /\ UNCHANGED <<cfgVars, call, scanVars, loopVars, mainResults, avgDays, avgDaysIndexJs>>

-----------------------------------------------------------------------------
(* Inputs *)

MaxIssues == 3

MaxRunHistories == 3

MaxHistories == 3

MaxRows == 3

Garbled == <<0>>

\* The changelog arrives oldest first: the k-th entry's timestamp.
HistoryStamp(k) ==
    IF k = 1 THEN <<2025, 9, 10, 12, 0>>
    ELSE IF k = 2 THEN <<2025, 9, 30, 0, 0>>
    ELSE IF k = 3 THEN <<2025, 9, 30, 0, 1>>
    ELSE <<2025, 10, k, 6, 30>>

ItemLists ==
    { <<>>,
      <<StatusChange(status1)>>,
      <<StatusChange(status2)>>,
      <<StatusChange("09 Done")>>,
      <<StatusChange(status1), StatusChange(status2)>>,
      <<[field |-> "assignee", toString |-> status2]>> }

EntriesAt(k) ==
    {[created |-> HistoryStamp(k), items |-> il] : il \in ItemLists}
      \cup {[created |-> Garbled, items |-> <<StatusChange(s)>>] : s \in {status1, status2}}

RECURSIVE HistoriesOfLen(_)
HistoriesOfLen(n) ==
    IF n = 0 THEN {<<>>}
    ELSE {Append(h, e) : h \in HistoriesOfLen(n - 1), e \in EntriesAt(n)}

Changelogs == UNION {HistoriesOfLen(n) : n \in 0..MaxHistories}

CreatedValues == {Absent, <<2025, 9, 1, 0, 0>>, <<2025, 9, 6, 18, 0>>, Garbled}

NowValues == {parseISO(<<2025, 9, 5, 6, 0>>), parseISO(<<2025, 10, 3, 0, 0>>)}

Bindings == {Unbound, "customfield_999"}

RunNow == parseISO(<<2025, 10, 3, 0, 0>>)

IssueWith(k, c) ==
    [key |-> k, created |-> c, summary |-> "Crash on save",
     status |-> status1, priority |-> IF k % 2 = 0 THEN "" ELSE "High", assignee |-> ""]

\* The servers of the full run: n issues, the k-th with a changelog of lens[k]
\* status changes that alternate between status1 and status2.
RunIssue(k) ==
    IssueWith(k, IF k % 3 = 1 THEN <<2025, 9, 1, 0, 0>> ELSE IF k % 3 = 2 THEN Garbled ELSE Absent)

RunChangelog(k, len) ==
    [i \in 1..len |->
        [created |-> HistoryStamp(i),
         items   |-> <<StatusChange(IF (i + k) % 2 = 0 THEN status1 ELSE status2)>>]]

RunServers ==
    UNION {
      {[issues            |-> [k \in 1..n |-> RunIssue(k)],
        changelog         |-> [k \in 1..n |-> RunChangelog(k, lens[k])],
        searchSendsIsLast |-> b,
        changelogShape    |-> sh] :
          lens \in [1..n -> 0..MaxRunHistories],
          b \in BOOLEAN,
          sh \in {"full", "offsets", "flag"}} : n \in 0..MaxIssues}

\* The servers of the one-issue runs: every created value, every changelog.
IssueServers ==
    {[issues            |-> <<IssueWith(1, c)>>,
      changelog         |-> <<h>>,
      searchSendsIsLast |-> TRUE,
      changelogShape    |-> "full"] : c \in CreatedValues, h \in Changelogs}

\* The failures of the full run: a 503 (retried) and a 404 (not retried).
RunFaults == {Failure(503, Null), Failure(404, Null)}

-----------------------------------------------------------------------------
(* Specifications *)

Loaded ==
    /\ call = NoCall
    /\ pc = "main"
    /\ nextPageToken = NoToken
    /\ data = NoData
    /\ issueIdx = 0
    /\ startAt = 0
    /\ histories = <<>>
    /\ scanIdx = 0
    /\ status1Time = Absent
    /\ status2Time = Absent
    /\ now = Num(0)
    /\ results = <<>>
    /\ requests = <<>>
    /\ mainResults = <<>>
    /\ avgDays = NotComputed
    /\ avgDaysIndexJs = NotComputed
    /\ csvFile = <<>>

\* The full run, as configured (useCreatedDate = true), against every server.
Init ==
    /\ useCreatedDate = TRUE
    /\ fieldIdBinding \in Bindings
    /\ server \in RunServers
    /\ clock = {RunNow}
    /\ Loaded

Next ==
    \/ Main
    \/ FetchRetry(RunFaults)
    \/ FetchThrows(RunFaults)
    \/ IssuesPage
    \/ BeginIssue
    \/ ChangelogPage
    \/ ScanNext
    \/ PushRow
    \/ EndOfPage
    \/ Average
    \/ SaveCsv

Spec == Init /\ [][Next]_vars

\* Runs over one issue, with either value of the flag and no failing request.
IssueInit ==
    /\ useCreatedDate \in BOOLEAN
    /\ fieldIdBinding \in Bindings
    /\ server \in IssueServers
    /\ clock = NowValues
    /\ Loaded

IssueNext ==
    \/ Main
    \/ IssuesPage
    \/ BeginIssue
    \/ ChangelogPage
    \/ ScanNext
    \/ PushRow
    \/ EndOfPage
    \/ Average
    \/ SaveCsv

SpecIssue == IssueInit /\ [][IssueNext]_vars

\* The first request of a run against a server without issues, under every
\* kind of failure: one call of withRetry from its first attempt to its end.
RetryStatuses == {401, 404, 429, 499, 500, 599, 600, NoResponse}

\* no header, '0', '2', and the HTTP-date form, which Number() turns into NaN
RetryAfterValues == {Null, Num(0), Num(2), NaN}

AllFaults == {Failure(st, h) : st \in RetryStatuses, h \in RetryAfterValues}

EmptyServer ==
    [issues |-> <<>>, changelog |-> <<>>, searchSendsIsLast |-> TRUE, changelogShape |-> "full"]

RetryInit ==
    /\ useCreatedDate = TRUE
    /\ fieldIdBinding = Unbound
    /\ server = EmptyServer
    /\ clock = {RunNow}
    /\ Loaded

RetryNext ==
    \/ Main
    \/ FetchRetry(AllFaults)
    \/ FetchThrows(AllFaults)
    \/ IssuesPage
    \/ EndOfPage
    \/ Average
    \/ SaveCsv

SpecRetry == RetryInit /\ [][RetryNext]_vars

\* The two averages, applied to every list of up to MaxRows rows.
DaysValues == {Null, Num(0), Num(4), Num(9)}

RowWithDays(k, d) ==
    [ReportRow(IssueWith(k, <<2025, 9, 1, 0, 0>>), NoTimes, RunNow)
        EXCEPT !.timeSpentDays = d,
               !.timeSpentMinutes = IF d = Null THEN Null ELSE Num(d.v * MinutesPerDay)]

RowLists ==
    UNION {{[k \in 1..n |-> RowWithDays(k, ds[k])] : ds \in [1..n -> DaysValues]} :
              n \in 0..MaxRows}

AverageInit ==
    /\ useCreatedDate = TRUE
    /\ fieldIdBinding = "customfield_999"
    /\ server = EmptyServer
    /\ clock = {RunNow}
    /\ call = NoCall
    /\ pc = "average"
    /\ nextPageToken = NoToken
    /\ data = NoData
    /\ issueIdx = 0
    /\ startAt = 0
    /\ histories = <<>>
    /\ scanIdx = 0
    /\ status1Time = Absent
    /\ status2Time = Absent
    /\ now = Num(0)
    /\ results \in RowLists
    /\ requests = <<>>
    /\ mainResults = results
    /\ avgDays = NotComputed
    /\ avgDaysIndexJs = NotComputed
    /\ csvFile = <<>>

AverageNext == Average \/ AverageIndexJs \/ SaveCsv

SpecAverage == AverageInit /\ [][AverageNext]_vars

-----------------------------------------------------------------------------
(* Properties of the issue loop's body *)

EntersStatus(history, st) ==
    \E j \in 1..Len(history.items) :
        history.items[j].field = "status" /\ history.items[j].toString = st

\* the timestamp of the earliest entry of hs that enters st, Absent when none does
FirstEntryTime(hs, st) ==
    LET hits == {i \in 1..Len(hs) : EntersStatus(hs[i], st)}
    IN  IF hits = {} THEN Absent
        ELSE hs[CHOOSE i \in hits : \A k \in hits : i <= k].created

Scanned == SubSeq(histories, 1, scanIdx)

\* a row has just been pushed: histories and now are still those it was made from
JustPushed == pc = "issue" /\ issueIdx >= 1

LastRow == results[Len(results)]

LastIssue == data.issues[issueIdx]

Parses(s) == Truthy(s) /\ ~isNaN(parseISO(s))

Unparseable(s) == Truthy(s) /\ isNaN(parseISO(s))

\* C2: at every point of the scan, status1Time and status2Time are the
\* timestamps of the first entry seen so far that enters status1,
\* respectively status2 (absent while none has); a recorded time is never
\* changed by a later entry; and the row carries the first status2 time of the
\* whole changelog.
C2_FirstEntryWins ==
    /\ [](pc = "scan" =>
            /\ status1Time = FirstEntryTime(Scanned, status1)
            /\ status2Time = FirstEntryTime(Scanned, status2))
    /\ [](JustPushed =>
            /\ status1Time = FirstEntryTime(histories, status1)
            /\ LastRow.status2Time = FirstEntryTime(histories, status2))
    /\ [][pc = "scan" =>
            /\ Truthy(status1Time) => status1Time' = status1Time
            /\ Truthy(status2Time) => status2Time' = status2Time]_vars

\* C2's case: status1 is entered, left and entered again, and the scan is over.
C2_Witness ==
    /\ JustPushed
    /\ Len(histories) >= 3
    /\ EntersStatus(histories[1], status1)
    /\ ~EntersStatus(histories[2], status1)
    /\ EntersStatus(histories[3], status1)
    /\ histories[1].created /= histories[3].created
    /\ status1Time = histories[1].created

\* C8: the flag alone chooses the start time: with useCreatedDate the row's
\* start time is the issue's created value whatever the changelog holds;
\* without it, it is the first status1 entry's time, absent when the issue
\* never entered status1.
C8_StartTimeByFlag ==
    JustPushed =>
        /\ useCreatedDate => LastRow.startTime = LastIssue.created
        /\ ~useCreatedDate => LastRow.startTime = FirstEntryTime(histories, status1)

\* C8's case: the flag is set and the changelog holds a status1 entry whose
\* time differs from the created date.
C8_Witness ==
    /\ JustPushed
    /\ useCreatedDate
    /\ Truthy(LastIssue.created)
    /\ Truthy(FirstEntryTime(histories, status1))
    /\ FirstEntryTime(histories, status1) /= LastIssue.created
    /\ LastRow.startTime = LastIssue.created

\* d is the number of whole days in diff minutes, counted towards zero
WholeDaysTowardsZero(d, diff) ==
    IF diff >= 0
    THEN d >= 0 /\ d * MinutesPerDay <= diff /\ diff < (d + 1) * MinutesPerDay
    ELSE d <= 0 /\ (-d) * MinutesPerDay <= -diff /\ -diff < (-d + 1) * MinutesPerDay

\* d is floor(diff / one day)
WholeDaysFloor(d, diff) ==
    d * MinutesPerDay <= diff /\ diff < (d + 1) * MinutesPerDay

EndDateCutoff == parseISO(<<2025, 9, 30>>)

\* C1: the row's Time Spent (Minutes) and Time Spent (Days) are both present
\* exactly when the start time and the first status2 time are present and
\* that status2 time is not after the end-date cutoff, and both null otherwise.
C1_TimeSpentPresentIff ==
    JustPushed =>
        LET due == /\ Parses(LastRow.startTime)
                   /\ Parses(LastRow.status2Time)
                   /\ parseISO(LastRow.status2Time).v <= EndDateCutoff.v
        IN  /\ due => IsNumber(LastRow.timeSpentMinutes) /\ IsNumber(LastRow.timeSpentDays)
            /\ ~due => LastRow.timeSpentMinutes = Null /\ LastRow.timeSpentDays = Null

\* The cell of the CSV line of r under the given column (1 based).
CsvCell(r, col) == CsvCells(r)[col]

\* C7: a timestamp that does not parse counts as absent: the fields derived
\* from it are null in the row and empty in the CSV: Currently in Backlog for
\* (column 6) from the start time, the two Time Spent columns (8 and 9) from
\* the start time and the status2 time.
C7_UnparseableIsAbsent ==
    JustPushed =>
        /\ Unparseable(LastRow.startTime) =>
              /\ LastRow.backlogDays = Null
              /\ CsvCell(LastRow, 6) = ""
        /\ (Unparseable(LastRow.startTime) \/ Unparseable(LastRow.status2Time)) =>
              /\ LastRow.timeSpentMinutes = Null /\ LastRow.timeSpentDays = Null
              /\ CsvCell(LastRow, 8) = "" /\ CsvCell(LastRow, 9) = ""

-----------------------------------------------------------------------------
(* Properties of the run *)

FatalFetchError == call.state = "thrown"

Ceil(a, b) == (a + b - 1) \div b

Requested(kind, key) ==
    SelectSeq(requests, LAMBDA r : r.kind = kind /\ r.key = key)

NoDuplicates(seq) == \A i, j \in 1..Len(seq) : i /= j => seq[i] /= seq[j]

Ended == pc \in {"done", "failed"}

\* C3 (for a server that holds at least one issue, and changelogs of at least
\* one entry): a run in which no request fails asks for ceil(total / page size)
\* search pages and, per issue, ceil(entries / page size) changelog pages, no
\* page twice, and ends with every issue in the results exactly once, in order.
C3_EveryPageOnce ==
    (Ended /\ ~FatalFetchError /\ Len(server.issues) >= 1) =>
        /\ Len(Requested("search", 0)) = Ceil(Len(server.issues), PageSize)
        /\ NoDuplicates(requests)
        /\ \A k \in 1..Len(server.issues) :
              Len(server.changelog[k]) >= 1 =>
                 Len(Requested("changelog", k)) = Ceil(Len(server.changelog[k]), ChangelogPageSize)
        /\ Len(results) = Len(server.issues)
        /\ \A i \in 1..Len(results) : results[i].key = server.issues[i].key

\* The same with the identifier declared and empty totals counted as one page:
\* every loop asks for max(1, ceil(total / page size)) pages, each once, the
\* changelog handed to the scan is the server's, and every issue gets its row.
PagesOnceWhenDeclared ==
    /\ (pc = "scan" => histories = server.changelog[CurrentIssue.key])
    /\ (Ended /\ ~FatalFetchError /\ fieldIdBinding /= Unbound) =>
          /\ Len(Requested("search", 0)) =
                 IF server.issues = <<>> THEN 1 ELSE Ceil(Len(server.issues), PageSize)
          /\ NoDuplicates(requests)
          /\ \A k \in 1..Len(server.issues) :
                Len(Requested("changelog", k)) =
                    IF server.changelog[k] = <<>> THEN 1
                    ELSE Ceil(Len(server.changelog[k]), ChangelogPageSize)
          /\ Len(results) = Len(server.issues)
          /\ \A i \in 1..Len(results) : results[i].key = server.issues[i].key

\* C4: once a request has failed for good, the run is over: nothing more is
\* requested, main never gets any results, no average is computed and no CSV
\* file is written.
C4_FatalFetchAborts ==
    /\ [](FatalFetchError =>
            /\ pc = "failed"
            /\ mainResults = <<>>
            /\ avgDays = NotComputed
            /\ csvFile = <<>>)
    /\ [][FatalFetchError => UNCHANGED <<pc, requests, mainResults, csvFile>>]_vars

\* C4's case: the last page of a changelog fails after the retries are used
\* up, with a row already accumulated.
C4_Witness ==
    /\ FatalFetchError
    /\ Len(call.tries) = retries + 1
    /\ requests[Len(requests)].kind = "changelog"
    /\ requests[Len(requests)].startAt > 0
    /\ Len(results) >= 1
    /\ csvFile = <<>>

\* C5: a run in which every request succeeds ends with one row per issue of
\* the server, in the server's order, and a CSV of the header and one line per
\* issue.
C5_OneRowPerIssue ==
    (Ended /\ ~FatalFetchError) =>
        /\ pc = "done"
        /\ Len(mainResults) = Len(server.issues)
        /\ \A i \in 1..Len(mainResults) : mainResults[i].key = server.issues[i].key
        /\ Len(csvFile) = 1 + Len(server.issues)

-----------------------------------------------------------------------------
(* Properties of withRetry *)

Transient(o) == ~o.ok /\ (o.status = 429 \/ o.status \in 500..599)

\* C10: fn is invoked again only after a 429 or 5xx and at most `retries`
\* times: while the call runs every attempt so far failed with such a status
\* and there are at most `retries` of them; a call that threw either met a
\* failure of another kind at its last attempt or used up retries + 1
\* attempts; a call that returned succeeded at its last attempt; and one wait
\* precedes each attempt but the first, none follows the last.
C10_RetryOnlyTransient ==
    LET n == Len(call.tries)
    IN  /\ n <= retries + 1
        /\ \A i \in 1..(n - 1) : Transient(call.tries[i])
        /\ call.state = "calling" =>
              /\ n = call.attempt /\ n <= retries /\ Len(call.waits) = n
              /\ \A i \in 1..n : Transient(call.tries[i])
        /\ call.state = "thrown" =>
              /\ n >= 1 /\ ~call.tries[n].ok /\ Len(call.waits) = n - 1
              /\ Transient(call.tries[n]) => n = retries + 1
        /\ call.state = "returned" =>
              /\ n >= 1 /\ call.tries[n].ok /\ Len(call.waits) = n - 1

\* C10's case: the call gave up on a 5xx after retries + 1 attempts.
C10_Witness ==
    /\ call.state = "thrown"
    /\ Len(call.tries) = retries + 1
    /\ call.tries[retries + 1].status = 500

\* The wait before retry number k after outcome o, as the backoff rule states
\* it: the header's seconds when it carries a number, baseDelayMs * 2^k when
\* there is no header.
HeaderWait(o) == o.retryAfter.v * 1000

BackoffWait(k) == baseDelayMs * Pow2(k)

NonDecreasing(ws) == \A i \in 1..(Len(ws) - 1) : ws[i] <= ws[i + 1]

NoOverride(c) == \A i \in 1..Len(c.waits) : c.tries[i].retryAfter = Null

\* C11: before retry number k (k = 0, 1, 2, ...) withRetry waits for the
\* time the Retry-After header of the failed attempt gives, for every number
\* it carries, 0 included, and for baseDelayMs * 2^k ms when the attempt
\* carried no header; so the waits of a call without any header never
\* decrease from one attempt to the next.
C11_WaitFollowsRetryAfter ==
    /\ \A i \in 1..Len(call.waits) :
         LET o == call.tries[i]
         IN  /\ IsNumber(o.retryAfter) => call.waits[i] = HeaderWait(o)
             /\ o.retryAfter = Null => call.waits[i] = BackoffWait(i - 1)
    /\ NoOverride(call) => NonDecreasing(call.waits)

\* What withRetry does keep: a header with a number other than 0 sets the
\* wait, every other attempt (no header, '0', not a number) is followed by
\* baseDelayMs * 2^k, and without headers the waits never decrease.
WaitFollowsNonZeroRetryAfter ==
    /\ \A i \in 1..Len(call.waits) :
         LET o == call.tries[i]
         IN  IF IsNumber(o.retryAfter) /\ o.retryAfter.v /= 0
             THEN call.waits[i] = HeaderWait(o)
             ELSE call.waits[i] = BackoffWait(i - 1)
    /\ NoOverride(call) => NonDecreasing(call.waits)

\* A call that used all its retries without a header: 500, 1000, 2000 ms.
FullBackoffReached ==
    /\ Len(call.waits) = retries
    /\ NoOverride(call)

-----------------------------------------------------------------------------
(* Properties of the averages *)

PresentDays(rows) == SelectSeq(Days(rows), IsNumber)

\* q is the mean of the present values of rows, 0 when there is none
MeanOfPresent(q, rows) ==
    LET present == PresentDays(rows)
        total   == Sum([i \in 1..Len(present) |-> present[i].v])
    IN  /\ q.k = "num"
        /\ q.den >= 1
        /\ IF present = <<>> THEN q.num = 0
           ELSE q.num * Len(present) = total * q.den

\* C6: each calculateAverageTimeSpentDays returns the mean of the Time Spent
\* (Days) values that are present, and 0 when none is.
C6_MeanOfPresent ==
    /\ avgDays /= NotComputed => MeanOfPresent(avgDays, mainResults)
    /\ avgDaysIndexJs /= NotComputed => MeanOfPresent(avgDaysIndexJs, mainResults)

\* The enhanced-search script's average is that mean.
MeanOfPresentEnhanced ==
    avgDays /= NotComputed => MeanOfPresent(avgDays, mainResults)

=============================================================================
